---- MODULE Spec2Model ----
(***************************************************************************)
(* UID discovery over a shared line: the responder (main.cpp, uidresp.h)   *)
(* and the scanner (uidscan.cpp), joined by two line-oriented FIFO         *)
(* channels.  A line is a sequence of one-character strings.               *)
(***************************************************************************)
EXTENDS Integers, Sequences, FiniteSets, TLC

(***************************************************************************)
(* Program constants                                                       *)
(***************************************************************************)
MAXLEN == 17

MATCH_LEFT == 2

CHARSET ==
  << "0","1","2","3","4","5","6","7","8","9",
     "A","B","C","D","E","F","G","H","I","J","K","L","M",
     "N","O","P","Q","R","S","T","U","V","W","X","Y","Z",
     "a","b","c","d","e","f","g","h","i","j","k","l","m",
     "n","o","p","q","r","s","t","u","v","w","x","y","z",
     "-","_" >>

CharsetSize == Len(CHARSET)

UidLen == MAXLEN + 2

(***************************************************************************)
(* Bounds of the model                                                     *)
(***************************************************************************)
\* how many times a poll may time out while the responder still has a
\* line of the scanner to process (a reply that arrives late)
MaxLate == 2

\* longest probe and longest UID drawn for the pure check of matches()
MaxProbeLen == 4

MaxUidLen == 4

\* longest UID, most UIDs and largest maxLen drawn for the pure check of
\* generateCollision()
MaxCollUid == 2

MaxCollLen == 3

(***************************************************************************)
(* Strings                                                                 *)
(***************************************************************************)
Rep(c, n) == [i \in 1..n |-> c]

reverse_string(line) == [i \in 1..Len(line) |-> line[Len(line) + 1 - i]]

StartsWith(line, p) == Len(line) >= Len(p) /\ SubSeq(line, 1, Len(p)) = p

SETADDR == <<"S","E","T","A","D","D","R",":">>

RESETADDR == <<"R","E","S","E","T","A","D","D","R",":">>

RESETALL == <<"R","E","S","E","T","A","L","L">>

\* generateCollision() not called yet (no line holds this)
NoResult == <<"none">>

\* what read_line returns for a received empty line
Bang == <<"!">>

CB == <<"C","B">>

HS == <<"H","S">>

UidA == CB \o Rep("0", 16) \o <<"A">>

UidB == CB \o Rep("0", 16) \o <<"B">>

UidAX == CB \o <<"A","A">> \o Rep("0", 14) \o <<"X">>

UidBX == CB \o <<"B","B">> \o Rep("0", 14) \o <<"X">>

UidA0 == CB \o <<"A">> \o Rep("0", 16)

UidB0 == CB \o <<"B">> \o Rep("0", 16)

UidHB == HS \o Rep("0", 16) \o <<"B">>

UidHC == HS \o Rep("0", 16) \o <<"C">>

(***************************************************************************)
(* State                                                                   *)
(***************************************************************************)
VARIABLES
  uids,        \* responder: the known UIDs, in command-line order
  muted,       \* responder: MuteSet
  toResp,      \* lines written by the scanner, not yet read by the responder
  toScan,      \* lines written by the responder, not yet read by the scanner
  eof,         \* the scanner's input stream has ended
  late,        \* polls that timed out ahead of the responder
  prefixes,    \* scanner: the prefixes of the command line
  argi,        \* scanner main: index of the prefix being scanned
  pc,          \* scanner: where it stands
  stack,       \* scanner: the live invocations of scan(), outermost first
  level,       \* scanner: the static recursion counter of scan()
  found_uids,  \* scanner: FoundSet
  retval,      \* scanner: the value the last scan() returned
  lastSent,    \* the line the scanner wrote last
  setaddrs,    \* the uids of the SETADDR lines the scanner wrote, in order
  log,         \* the last three lines the responder processed: for each the line,
               \* MuteSet before it and the lines written while processing it
  addressed,   \* the uids named by a SETADDR line processed since the last
               \* RESETADDR line naming them and the last RESETALL line
  mInput,      \* matches(): the probe
  mUid,        \* matches(): the UID
  mRes,        \* matches(): the result, once computed
  cUids,       \* generateCollision(): the UIDs
  cMaxLen,     \* generateCollision(): maxLen
  cRes         \* generateCollision(): the result, once computed

respVars == <<uids, muted>>

chanVars == <<toResp, toScan, eof, late>>

scanLog == <<lastSent, setaddrs>>

scanVars == <<prefixes, argi, pc, stack, level, found_uids, retval, scanLog>>

histVars == <<log, addressed>>

matchVars == <<mInput, mUid, mRes, cUids, cMaxLen, cRes>>

vars == <<uids, muted, toResp, toScan, eof, late, prefixes, argi, pc, stack,
          level, found_uids, retval, lastSent, setaddrs, log, addressed,
          mInput, mUid, mRes, cUids, cMaxLen, cRes>>

(***************************************************************************)
(* Responder: uidresp.h                                                    *)
(***************************************************************************)
Min(a, b) == IF a < b THEN a ELSE b

\* matches() without its test of an empty input
matchesNoEmptyTest(input, uid) ==
  LET len == Len(input) IN
    IF len > Len(uid) THEN FALSE
    ELSE LET left == Min(MATCH_LEFT, len)
             right == IF len > MATCH_LEFT THEN len - MATCH_LEFT ELSE 0
         IN /\ \A i \in 0..(left - 1) : input[i + 1] = uid[i + 1]
            /\ \A i \in 0..(right - 1) :
                 input[MATCH_LEFT + i + 1] = uid[Len(uid) - right + i + 1]

\* matches() with the right anchor read after the left one, not at the end
matchesRightAtLeft(input, uid) ==
  IF input = <<>> THEN FALSE
  ELSE LET len == Len(input) IN
    IF len > Len(uid) THEN FALSE
    ELSE LET left == Min(MATCH_LEFT, len)
             right == IF len > MATCH_LEFT THEN len - MATCH_LEFT ELSE 0
         IN /\ \A i \in 0..(left - 1) : input[i + 1] = uid[i + 1]
            /\ \A i \in 0..(right - 1) :
                 input[MATCH_LEFT + i + 1] = uid[MATCH_LEFT + i + 1]

matches(input, uid) ==
  IF input = <<>> THEN FALSE
  ELSE LET len == Len(input) IN
    IF len > Len(uid) THEN FALSE
    ELSE LET left == Min(MATCH_LEFT, len)
             right == IF len > MATCH_LEFT THEN len - MATCH_LEFT ELSE 0
         IN /\ \A i \in 0..(left - 1) : input[i + 1] = uid[i + 1]
            /\ \A i \in 0..(right - 1) :
                 input[MATCH_LEFT + i + 1] = uid[Len(uid) - right + i + 1]

\* the function returns "" before its loop is reached
generateCollision(us, maxLen) == <<>>

(***************************************************************************)
(* Responder: main.cpp, one iteration of the read loop                     *)
(***************************************************************************)
InList(us, u) == \E i \in 1..Len(us) : us[i] = u

\* the matching loop without its test of MuteSet
MatchedMuted(line) == SelectSeq(uids, LAMBDA u : matches(line, u))

Matched(line) ==
  SelectSeq(uids, LAMBDA u : u \notin muted /\ matches(line, u))

\* a reply that drops the single match
ReplyNoSingle(matched) ==
  IF Len(matched) <= 1 THEN <<>>
  ELSE IF Len(matched[1]) >= 2 /\ matched[1][1] = "C" /\ matched[1][2] = "B"
       THEN << <<>> >>
       ELSE << generateCollision(matched, 19) >>

\* a reply in which every matching UID is written on a line of its own
ReplyAll(matched) == matched

\* a reply in which the first of several matching devices wins the line
ReplyFirstWins(matched) ==
  IF Len(matched) = 0 THEN <<>> ELSE <<matched[1]>>

Reply(matched) ==
  IF Len(matched) = 0 THEN <<>>
  ELSE IF Len(matched) = 1 THEN <<matched[1]>>
  ELSE IF Len(matched[1]) >= 2 /\ matched[1][1] = "C" /\ matched[1][2] = "B"
       THEN << <<>> >>
       ELSE << generateCollision(matched, 19) >>

\* std::cout of the responder
Emit(out) == toScan' = toScan \o out

\* SETADDR that mutes whatever it is given
SetAddrAny(uid) == muted \cup {uid}

SetAddr(uid) == IF InList(uids, uid) THEN muted \cup {uid} ELSE muted

\* RESETADDR that erases nothing
ResetAddrKeep(uid) == muted

ResetAddr(uid) == IF uid \in muted THEN muted \ {uid} ELSE muted

\* RESETALL that clears nothing
ResetAllKeep == muted

ResetAll == {}

RespHandle(line) ==
  /\ UNCHANGED uids
  /\ IF line = <<>> THEN
       UNCHANGED <<muted, toScan>>
     ELSE IF StartsWith(line, SETADDR) THEN
       /\ muted' = SetAddr(SubSeq(line, 9, Len(line)))
       /\ UNCHANGED toScan
     ELSE IF StartsWith(line, RESETADDR) THEN
       /\ muted' = ResetAddr(SubSeq(line, 11, Len(line)))
       /\ UNCHANGED toScan
     ELSE IF line = RESETALL THEN
       /\ muted' = ResetAll
       /\ UNCHANGED toScan
     ELSE
       /\ UNCHANGED muted
       /\ Emit(Reply(Matched(line)))

\* the record of what the responder did with a line
Push(lg, r) == IF Len(lg) < 3 THEN Append(lg, r) ELSE Append(Tail(lg), r)

Written == SubSeq(toScan', Len(toScan) + 1, Len(toScan'))

Addressed(line) ==
  IF StartsWith(line, SETADDR)
    THEN addressed \cup {SubSeq(line, 9, Len(line))}
  ELSE IF StartsWith(line, RESETADDR)
    THEN addressed \ {SubSeq(line, 11, Len(line))}
  ELSE IF line = RESETALL THEN {}
  ELSE addressed

RespStep ==
  /\ ~eof
  /\ toResp # <<>>
  /\ RespHandle(Head(toResp))
  /\ toResp' = Tail(toResp)
  /\ log' = Push(log, [line |-> Head(toResp), before |-> muted, out |-> Written])
  /\ addressed' = Addressed(Head(toResp))
  /\ UNCHANGED <<eof, late>>
  /\ UNCHANGED scanVars
  /\ UNCHANGED matchVars

(***************************************************************************)
(* Scanner: uidscan.cpp, transport                                         *)
(***************************************************************************)
\* std::cout of the scanner; once the responder is gone nobody reads it
send(line) ==
  /\ toResp' = IF eof THEN toResp ELSE Append(toResp, line)
  /\ lastSent' = line

\* read_line: a received line, "!" for an empty one
CanGetLine == toScan # <<>>

GotLine == IF Head(toScan) = <<>> THEN Bang ELSE Head(toScan)

\* read_line: poll times out (or the stream has ended): the empty string.
\* Without a late reply the poll waits until the responder has caught up.
CanTimeout == toScan = <<>> /\ (toResp = <<>> \/ late < MaxLate)

CountLate == late' = IF toResp # <<>> THEN late + 1 ELSE late

mute(uid) == send(SETADDR \o uid) /\ setaddrs' = Append(setaddrs, uid)

reset_all == send(RESETALL) /\ UNCHANGED setaddrs

(***************************************************************************)
(* Scanner: scan()                                                         *)
(***************************************************************************)
Frame(s, index) ==
  [s |-> s, pos |-> index, inner |-> 0, next |-> <<>>, resp |-> <<>>]

Top == stack[Len(stack)]

Pop == SubSeq(stack, 1, Len(stack) - 1)

SetTop(f) == [stack EXCEPT ![Len(stack)] = f]

pfx == prefixes[argi]

\* a `continue` that skips the loop's pos++
ContinueSamePos(f) ==
  /\ stack' = SetTop(f)
  /\ pc' = "loop"

\* `continue`: the for loop's pos++ and back to its test
Continue(f) ==
  /\ stack' = SetTop([f EXCEPT !.pos = f.pos + 1])
  /\ pc' = "loop"

\* `return v` from scan()
Return(v) ==
  /\ retval' = v
  /\ stack' = Pop
  /\ pc' = "ret"

\* the body of `if (collision(resp))`
Collide ==
  IF Top.inner < CharsetSize THEN
    /\ level' = level + 1
    /\ stack' = Append(stack, Frame(Top.next, Top.inner))
    /\ pc' = "enter"
    /\ UNCHANGED <<found_uids, retval>>
  ELSE
    /\ Continue([Top EXCEPT !.inner = 0])
    /\ UNCHANGED <<level, found_uids, retval>>

\* `if (found_uids.insert(resp).second)` and the end of the loop body
Found(resp) ==
  IF resp \notin found_uids THEN
    /\ found_uids' = found_uids \cup {resp}
    /\ IF level > 1 THEN
         /\ Return(Top.pos)
         /\ UNCHANGED level
       ELSE
         /\ Continue([Top EXCEPT !.inner = 0])
         /\ UNCHANGED <<level, retval>>
  ELSE
    /\ Continue(Top)
    /\ UNCHANGED <<level, found_uids, retval>>

\* scan() after send_and_recv returned resp
AfterProbe(resp) ==
  IF resp = <<>> THEN
    /\ Continue([Top EXCEPT !.inner = 0])
    /\ UNCHANGED <<level, found_uids, retval, toResp, scanLog>>
  ELSE IF resp = Bang \/ Len(resp) # MAXLEN + 2 THEN
    /\ Collide
    /\ UNCHANGED <<toResp, scanLog>>
  ELSE
    /\ mute(resp)
    /\ stack' = SetTop([Top EXCEPT !.resp = resp])
    /\ pc' = "confirm"
    /\ UNCHANGED <<level, found_uids, retval>>

\* collision() after its read_line returned resp, and scan() after it
AfterConfirm(resp) ==
  IF Len(resp) # MAXLEN + 2 \/ resp # Top.resp THEN Collide
  ELSE Found(Top.resp)

MainStart ==
  /\ pc = "start"
  /\ reset_all
  /\ pc' = "nextpfx"
  /\ UNCHANGED <<prefixes, argi, stack, level, found_uids, retval>>
  /\ UNCHANGED <<toScan, eof, late>>
  /\ UNCHANGED <<respVars, histVars, matchVars>>

\* main() with a reset_all() in front of every scan()
MainCallReset ==
  /\ pc = "nextpfx"
  /\ argi <= Len(prefixes)
  /\ reset_all
  /\ stack' = <<Frame(<<>>, 0)>>
  /\ pc' = "enter"
  /\ UNCHANGED <<prefixes, argi, level, found_uids, retval>>
  /\ UNCHANGED <<toScan, eof, late>>
  /\ UNCHANGED <<respVars, histVars, matchVars>>

MainCall ==
  /\ pc = "nextpfx"
  /\ argi <= Len(prefixes)
  /\ stack' = <<Frame(<<>>, 0)>>
  /\ pc' = "enter"
  /\ UNCHANGED <<prefixes, argi, level, found_uids, retval>>
  /\ UNCHANGED <<scanLog, chanVars, respVars, histVars, matchVars>>

MainFinish ==
  /\ pc = "nextpfx"
  /\ argi > Len(prefixes)
  /\ reset_all
  /\ pc' = "done"
  /\ UNCHANGED <<prefixes, argi, stack, level, found_uids, retval>>
  /\ UNCHANGED <<toScan, eof, late>>
  /\ UNCHANGED <<respVars, histVars, matchVars>>

ScanEnterLimit ==
  /\ pc = "enter"
  /\ Len(Top.s) >= MAXLEN
  /\ level' = level - 1
  /\ Return(CharsetSize)
  /\ UNCHANGED <<prefixes, argi, found_uids>>
  /\ UNCHANGED <<scanLog, chanVars, respVars, histVars, matchVars>>

\* scan() going on into its loop whatever the length of s
ScanEnterNoLimit ==
  /\ pc = "enter"
  /\ pc' = "loop"
  /\ UNCHANGED <<prefixes, argi, stack, level, found_uids, retval>>
  /\ UNCHANGED <<scanLog, chanVars, respVars, histVars, matchVars>>

ScanEnter ==
  /\ pc = "enter"
  /\ Len(Top.s) < MAXLEN
  /\ pc' = "loop"
  /\ UNCHANGED <<prefixes, argi, stack, level, found_uids, retval>>
  /\ UNCHANGED <<scanLog, chanVars, respVars, histVars, matchVars>>

ScanProbe ==
  /\ pc = "loop"
  /\ Top.pos < CharsetSize
  /\ LET next == IF level = 0 THEN Top.s
                 ELSE Append(Top.s, CHARSET[Top.pos + 1])
         pos  == IF level = 0 THEN CharsetSize ELSE Top.pos
     IN /\ send(pfx \o reverse_string(next))
        /\ UNCHANGED setaddrs
        /\ stack' = SetTop([Top EXCEPT !.next = next, !.pos = pos])
  /\ pc' = "recv"
  /\ UNCHANGED <<prefixes, argi, level, found_uids, retval>>
  /\ UNCHANGED <<toScan, eof, late>>
  /\ UNCHANGED <<respVars, histVars, matchVars>>

ScanLoopEnd ==
  /\ pc = "loop"
  /\ Top.pos >= CharsetSize
  /\ Return(Top.pos)
  /\ UNCHANGED <<prefixes, argi, level, found_uids>>
  /\ UNCHANGED <<scanLog, chanVars, respVars, histVars, matchVars>>

ScanRecvLine ==
  /\ pc = "recv"
  /\ CanGetLine
  /\ toScan' = Tail(toScan)
  /\ AfterProbe(GotLine)
  /\ UNCHANGED <<prefixes, argi, eof, late>>
  /\ UNCHANGED <<respVars, histVars, matchVars>>

ScanRecvTimeout ==
  /\ pc = "recv"
  /\ CanTimeout
  /\ CountLate
  /\ AfterProbe(<<>>)
  /\ UNCHANGED <<prefixes, argi, toScan, eof>>
  /\ UNCHANGED <<respVars, histVars, matchVars>>

ConfirmLine ==
  /\ pc = "confirm"
  /\ CanGetLine
  /\ toScan' = Tail(toScan)
  /\ AfterConfirm(GotLine)
  /\ UNCHANGED <<prefixes, argi, toResp, scanLog, eof, late>>
  /\ UNCHANGED <<respVars, histVars, matchVars>>

ConfirmTimeout ==
  /\ pc = "confirm"
  /\ CanTimeout
  /\ CountLate
  /\ AfterConfirm(<<>>)
  /\ UNCHANGED <<prefixes, argi, toResp, scanLog, toScan, eof>>
  /\ UNCHANGED <<respVars, histVars, matchVars>>

\* back in the calling scan(): inner_index = scan(...); level--; pos--;
\* continue (the loop's pos++ undoes the pos--)
ScanReturn ==
  /\ pc = "ret"
  /\ stack # <<>>
  /\ level' = level - 1
  /\ stack' = SetTop([Top EXCEPT !.inner = retval])
  /\ pc' = "loop"
  /\ UNCHANGED <<prefixes, argi, found_uids, retval>>
  /\ UNCHANGED <<scanLog, chanVars, respVars, histVars, matchVars>>

\* back in main(): the loop over the prefixes goes on
MainReturn ==
  /\ pc = "ret"
  /\ stack = <<>>
  /\ argi' = argi + 1
  /\ pc' = "nextpfx"
  /\ UNCHANGED <<prefixes, stack, level, found_uids, retval>>
  /\ UNCHANGED <<scanLog, chanVars, respVars, histVars, matchVars>>

\* the responder process ends: its state is gone, the lines it has not read
\* are lost, and the scanner's input stream ends after the lines already
\* written to it
CloseStream ==
  /\ ~eof
  /\ pc \notin {"start", "done"}
  /\ eof' = TRUE
  /\ toResp' = <<>>
  /\ muted' = {}
  /\ log' = <<>> /\ addressed' = {}
  /\ UNCHANGED <<uids, toScan, late>>
  /\ UNCHANGED <<scanVars, matchVars>>

(***************************************************************************)
(* The scanner run against the responder                                   *)
(***************************************************************************)
Scenarios ==
  { [uids |-> <<UidA>>,         prefixes |-> <<CB>>],
    [uids |-> <<UidA, UidB>>,   prefixes |-> <<CB>>],
    [uids |-> <<UidAX, UidBX>>, prefixes |-> <<CB>>],
    [uids |-> <<UidA, UidHB>>,  prefixes |-> <<CB, HS>>],
    [uids |-> <<UidA>>,         prefixes |-> <<CB, CB>>],
    [uids |-> <<UidA0, UidB0>>, prefixes |-> <<CB, HS>>] }

Init ==
  /\ \E sc \in Scenarios : uids = sc.uids /\ prefixes = sc.prefixes
  /\ muted = {}
  /\ toResp = <<>> /\ toScan = <<>> /\ eof = FALSE /\ late = 0
  /\ argi = 1 /\ pc = "start" /\ stack = <<>> /\ level = 0
  /\ found_uids = {} /\ retval = 0
  /\ lastSent = <<>> /\ setaddrs = <<>>
  /\ log = <<>> /\ addressed = {}
  /\ mInput = <<>> /\ mUid = <<>> /\ mRes = "none"
  /\ cUids = <<>> /\ cMaxLen = 0 /\ cRes = NoResult

Next ==
  \/ MainStart
  \/ MainCall
  \/ MainFinish
  \/ ScanEnterLimit
  \/ ScanEnter
  \/ ScanProbe
  \/ ScanLoopEnd
  \/ ScanRecvLine
  \/ ScanRecvTimeout
  \/ ConfirmLine
  \/ ConfirmTimeout
  \/ ScanReturn
  \/ MainReturn
  \/ RespStep
  \/ CloseStream

Spec == Init /\ [][Next]_vars

\* both processes keep running: a step that can be taken is taken
FairSpec == Spec /\ WF_vars(Next)

(***************************************************************************)
(* matches() on its own: the probe and the UID are drawn, then matched     *)
(***************************************************************************)
MatchAlphabet == {"1", "2"}

Strings(n) == UNION { [1..k -> MatchAlphabet] : k \in 0..n }

\* the pairs of tests/test_uidresp.cpp
TestPairs ==
  { << <<"1","2">>, <<"1","2","3","4","5","6">> >>,
    << <<"1","2","5","6">>, <<"1","2","3","4","5","6">> >>,
    << <<"1","2","b","c","5","6">>, <<"1","2","a","b","c","5","6">> >>,
    << <<"1","3">>, <<"1","2","3","4","5","6">> >>,
    << <<"1","2","5","7">>, <<"1","2","3","4","5","6">> >>,
    << <<>>, <<"1","2","3","4","5","6">> >>,
    << <<"1","2","3","4","5","6","7","8","9">>, <<"1","2","3">> >> }

Idle ==
  /\ muted = {}
  /\ toResp = <<>> /\ toScan = <<>> /\ eof = FALSE /\ late = 0
  /\ prefixes = <<>> /\ argi = 1 /\ pc = "idle" /\ stack = <<>> /\ level = 0
  /\ found_uids = {} /\ retval = 0
  /\ lastSent = <<>> /\ setaddrs = <<>>
  /\ log = <<>> /\ addressed = {}

InitMatch ==
  /\ \E pr \in (Strings(MaxProbeLen) \X Strings(MaxUidLen)) \cup TestPairs :
       mInput = pr[1] /\ mUid = pr[2]
  /\ mRes = "none"
  /\ cUids = <<>> /\ cMaxLen = 0 /\ cRes = NoResult
  /\ uids = <<>>
  /\ Idle

MatchCall ==
  /\ mRes = "none"
  /\ mRes' = IF matches(mInput, mUid) THEN "true" ELSE "false"
  /\ UNCHANGED <<mInput, mUid, cUids, cMaxLen, cRes>>
  /\ UNCHANGED <<respVars, chanVars, scanVars, histVars>>

NextMatch == MatchCall

SpecMatch == InitMatch /\ [][NextMatch]_vars

(***************************************************************************)
(* The responder on its own, fed any line                                  *)
(***************************************************************************)
RespLists ==
  { <<UidA>>, <<UidA, UidB>>, <<UidHB, UidA, UidHC>>, <<UidA, UidA>> }

CtlUids == {UidA, UidB}

InputLines ==
  { <<>>, CB, CB \o <<"A">>, HS, RESETALL }
    \cup { SETADDR \o u : u \in CtlUids }
    \cup { RESETADDR \o u : u \in CtlUids }

InitResp ==
  /\ uids \in RespLists
  /\ Idle
  /\ mInput = <<>> /\ mUid = <<>> /\ mRes = "none"
  /\ cUids = <<>> /\ cMaxLen = 0 /\ cRes = NoResult

\* a line arrives on the responder's input
RespFeed ==
  /\ pc = "idle"
  /\ toResp = <<>> /\ toScan = <<>>
  /\ \E line \in InputLines : toResp' = <<line>>
  /\ UNCHANGED <<toScan, eof, late>>
  /\ UNCHANGED <<respVars, scanVars, histVars, matchVars>>

\* the responder's output is read
EnvRead ==
  /\ pc = "idle"
  /\ toScan # <<>>
  /\ toScan' = Tail(toScan)
  /\ UNCHANGED <<toResp, eof, late>>
  /\ UNCHANGED <<respVars, scanVars, histVars, matchVars>>

NextResp ==
  \/ RespFeed
  \/ RespStep
  \/ EnvRead

SpecResp == InitResp /\ [][NextResp]_vars

(***************************************************************************)
(* generateCollision() on its own: the UIDs and maxLen are drawn, then the *)
(* function is called                                                      *)
(***************************************************************************)
CollAlphabet == {"A", "B"}

CollStrings == UNION { [1..k -> CollAlphabet] : k \in 0..MaxCollUid }

CollLists == { <<u>> : u \in CollStrings } \cup (CollStrings \X CollStrings)

\* the calls of tests/test_uidresp.cpp
TestCollisions ==
  { [uids |-> << <<"A","B","C","D","E","F","1","2","3","4","5","6","7","8",
                   "9","0","Z","Z","Z">>,
                 <<"X","Y","Z","1","2","3","4","5","6","7","8","9","0","Q",
                   "W","E","R","T","Y">>,
                 <<"1","1","1","2","2","2","3","3","3","4","4","4","5","5",
                   "5","6","6","6","7">> >>,
     maxLen |-> 10],
    [uids |-> << <<"A","B","C","D","E","F">> >>, maxLen |-> 6] }

InitColl ==
  /\ \E c \in TestCollisions \cup
              { [uids |-> l, maxLen |-> m] : l \in CollLists, m \in 0..MaxCollLen } :
       cUids = c.uids /\ cMaxLen = c.maxLen
  /\ cRes = NoResult
  /\ mInput = <<>> /\ mUid = <<>> /\ mRes = "none"
  /\ uids = <<>>
  /\ Idle

CollCall ==
  /\ cRes = NoResult
  /\ cRes' = generateCollision(cUids, cMaxLen)
  /\ UNCHANGED <<mInput, mUid, mRes, cUids, cMaxLen>>
  /\ UNCHANGED <<respVars, chanVars, scanVars, histVars>>

NextColl == CollCall

SpecColl == InitColl /\ [][NextColl]_vars

(***************************************************************************)
(* Properties                                                              *)
(***************************************************************************)
Known == { uids[i] : i \in 1..Len(uids) }

IsControl(line) ==
  StartsWith(line, SETADDR) \/ StartsWith(line, RESETADDR) \/ line = RESETALL

\* the devices (entries of the known list) that answer probe P under MuteSet mu
MatchIdx(P, mu) ==
  { i \in 1..Len(uids) : uids[i] \notin mu /\ matches(P, uids[i]) }

\* MuteSet after the k-th remembered line was processed
After(k) == IF k < Len(log) THEN log[k + 1].before ELSE muted

Last == log[Len(log)]

\* the responder takes `line` off its input in this step
RespProcesses(line) ==
  /\ ~eof /\ ~eof'
  /\ toResp # <<>> /\ Head(toResp) = line
  /\ toResp' = Tail(toResp)

\* C1: a run with one prefix p against distinct UIDs of length UID_LEN that
\* all begin with p, in which no poll timed out ahead of the responder and
\* the stream did not end, terminates with FoundSet equal to the known UIDs.
C1Case ==
  /\ Len(prefixes) = 1
  /\ late = 0 /\ ~eof
  /\ \A i \in 1..Len(uids) :
       Len(uids[i]) = UidLen /\ StartsWith(uids[i], prefixes[1])
  /\ \A i, j \in 1..Len(uids) : uids[i] = uids[j] => i = j

C1_DiscoveryComplete == (pc = "done" /\ C1Case) => found_uids = Known

\* C2: every scanner run terminates: main reaches the final RESETALL and
\* the report, whatever replies, timeouts and end of stream occur.
C2_Terminates == <>(pc = "done")

C2_Witness == pc = "done" /\ eof /\ late > 0 /\ Len(uids) = 2

\* C3 as stated: for every probe of length n <= |U| (the empty probe
\* included), matches(P, U) holds iff the first min(2, n) characters of P
\* are the first of U and the other characters of P are the last of U.
Anchored(P, U) ==
  LET n == Len(P)
      L == Min(2, n)
  IN /\ SubSeq(P, 1, L) = SubSeq(U, 1, L)
     /\ SubSeq(P, L + 1, n) = SubSeq(U, Len(U) - (n - L) + 1, Len(U))

C3_MatchSoundAnyLength ==
  (mRes # "none" /\ Len(mInput) <= Len(mUid))
    => (mRes = "true" <=> Anchored(mInput, mUid))

\* C3 amended: the same for every probe of length 1 <= n <= |U|.
C3_MatchSound ==
  (mRes # "none" /\ 1 <= Len(mInput) /\ Len(mInput) <= Len(mUid))
    => (mRes = "true" <=> Anchored(mInput, mUid))

C3_Witness ==
  /\ mRes = "true"
  /\ Len(mInput) > 2 /\ Len(mInput) < Len(mUid)
  /\ mUid[3] # mUid[Len(mUid) - (Len(mInput) - 2) + 1]

\* C4: a probe that is empty or longer than the UID matches nothing.
C4_OutOfRange ==
  (mRes # "none" /\ (mInput = <<>> \/ Len(mInput) > Len(mUid)))
    => mRes = "false"

C4_Witness ==
  /\ mRes = "false"
  /\ Len(mInput) > Len(mUid) /\ Len(mUid) > 2
  /\ SubSeq(mInput, 1, Len(mUid)) = mUid

\* C5: for a line that is no control command, with M the devices that are
\* not muted and match it: nothing is written when M is empty, and exactly
\* one line, the UID of the sole device of M, when M has one element.
C5_ReplyPolicy ==
  \A k \in 1..Len(log) :
    ~IsControl(log[k].line) =>
      LET M == MatchIdx(log[k].line, log[k].before) IN
        /\ M = {} => log[k].out = <<>>
        /\ Cardinality(M) = 1 => \E i \in M : log[k].out = <<uids[i]>>

C5_Witness ==
  /\ Len(log) = 3
  /\ log[2].line = HS /\ MatchIdx(HS, log[2].before) = {} /\ log[2].out = <<>>
  /\ log[3].line = CB /\ log[3].before = {UidB} /\ log[3].out = <<UidA>>

\* C6: every UID line the responder writes is a known UID that is not in
\* MuteSet when the probe is processed, and is no uid named by a SETADDR
\* processed since the last RESETADDR naming it and the last RESETALL.
C6_MuteSuppression ==
  [][\A i \in 1..Len(Written) :
       Written[i] # <<>> =>
         /\ Written[i] \in Known
         /\ Written[i] \notin muted
         /\ Written[i] \notin addressed]_vars

C6_Witness ==
  /\ uids = <<UidA>>
  /\ Len(log) >= 2
  /\ log[Len(log) - 1].line = SETADDR \o UidA
  /\ Last.line = CB /\ Last.out = <<>>
  /\ UidA \in addressed

\* C7: MuteSet holds known UIDs only, and a SETADDR naming a uid that is
\* not known leaves MuteSet as it was.
C7_MutedKnown ==
  /\ muted \subseteq Known
  /\ \A k \in 1..Len(log) :
       (/\ StartsWith(log[k].line, SETADDR)
        /\ SubSeq(log[k].line, 9, Len(log[k].line)) \notin Known)
         => After(k) = log[k].before

C7_Witness ==
  /\ uids = <<UidA>>
  /\ Len(log) >= 1
  /\ Last.line = SETADDR \o UidB
  /\ muted = {UidA}

\* C8: right after the responder processes RESETALL, MuteSet is empty and
\* the known list is as it was.
C8_ResetAll ==
  [][RespProcesses(RESETALL) => (muted' = {} /\ uids' = uids)]_vars

C8_Witness ==
  /\ Len(log) >= 1
  /\ Last.line = RESETALL
  /\ Cardinality(Last.before) = 2
  /\ muted = {}

\* C9: SETADDR:U for a known U that is not muted followed by RESETADDR:U
\* leaves MuteSet as it was before the two, and a probe that follows and is
\* matched by the one device U alone is answered with U; a RESETADDR naming
\* a uid that is not muted leaves MuteSet as it was.
C9_RoundTrip ==
  /\ \A k \in 1..(Len(log) - 1) : \A U \in Known :
       (/\ log[k].line = SETADDR \o U
        /\ U \notin log[k].before
        /\ log[k + 1].line = RESETADDR \o U)
         => /\ After(k + 1) = log[k].before
            /\ (/\ k + 2 <= Len(log)
                /\ ~IsControl(log[k + 2].line)
                /\ \E i \in 1..Len(uids) :
                     /\ uids[i] = U
                     /\ MatchIdx(log[k + 2].line, log[k + 2].before) = {i})
                 => log[k + 2].out = <<U>>
  /\ \A k \in 1..Len(log) :
       (/\ StartsWith(log[k].line, RESETADDR)
        /\ SubSeq(log[k].line, 11, Len(log[k].line)) \notin log[k].before)
         => After(k) = log[k].before

C9_Witness ==
  /\ uids = <<UidA, UidB>>
  /\ Len(log) = 3
  /\ log[1].line = SETADDR \o UidA /\ log[1].before = {UidB}
  /\ log[2].line = RESETADDR \o UidA /\ log[2].before = {UidA, UidB}
  /\ log[3].line = CB /\ log[3].before = {UidB} /\ log[3].out = <<UidA>>

\* C10: processing a SETADDR, RESETADDR or RESETALL line writes nothing,
\* and processing any other line writes at most one line.
C10_ControlSilent ==
  \A k \in 1..Len(log) :
    IF IsControl(log[k].line) THEN log[k].out = <<>>
    ELSE Len(log[k].out) <= 1

C10_Witness ==
  /\ uids = <<UidHB, UidA, UidHC>>
  /\ Len(log) = 3
  /\ log[1].line = SETADDR \o UidB /\ log[1].out = <<>>
  /\ log[2].line = RESETALL /\ log[2].out = <<>>
  /\ log[3].line = HS /\ log[3].out = << <<>> >>

\* C11: when two or more devices that are not muted match a probe and the
\* matching UIDs begin with CB, the responder writes exactly one line, and
\* that line is empty.
C11_CollisionCB ==
  \A k \in 1..Len(log) :
    ~IsControl(log[k].line) =>
      LET M == MatchIdx(log[k].line, log[k].before) IN
        (/\ Cardinality(M) >= 2
         /\ \A i \in M : StartsWith(uids[i], CB))
          => log[k].out = << <<>> >>

C11_Witness ==
  /\ uids = <<UidA, UidB>>
  /\ Len(log) >= 1
  /\ Last.line = CB /\ Last.before = {}
  /\ Cardinality(MatchIdx(CB, {})) = 2
  /\ Last.out = << <<>> >>

\* C12: generateCollision(uids, maxLen) returns a string as long as the
\* smaller of maxLen and the longest UID, whose character at each position
\* is the character some UID has at that position.
Longest(us) ==
  IF us = <<>> THEN 0
  ELSE CHOOSE n \in { Len(us[i]) : i \in 1..Len(us) } :
         \A i \in 1..Len(us) : Len(us[i]) <= n

C12_Mixture ==
  cRes # NoResult =>
    /\ Len(cRes) = Min(cMaxLen, Longest(cUids))
    /\ \A i \in 1..Len(cRes) :
         \E k \in 1..Len(cUids) : i <= Len(cUids[k]) /\ cRes[i] = cUids[k][i]

\* C13: during one run the scanner writes SETADDR:U at most once for each
\* UID U (FoundSet, a set, holds no UID twice).
C13_NoDuplicate ==
  \A i, j \in 1..Len(setaddrs) : setaddrs[i] = setaddrs[j] => i = j

\* the probe the current invocation of scan() sent last
Probe == pfx \o reverse_string(Top.next)

\* C14: while the scanner waits for the confirmation of a candidate, the
\* line it wrote last is the probe the candidate answered, sent again; the
\* candidate is in FoundSet only if the confirmation equalled it.
C14_ConfirmByReprobe == pc = "confirm" => lastSent = Probe

\* C15: whenever the scanner reads, the line it wrote last is a probe and
\* no SETADDR or RESETALL: control commands are not awaited.
C15_ControlNotAwaited ==
  pc \in {"recv", "confirm"} => ~IsControl(lastSent)

\* C16 as stated: whenever main calls scan() for a prefix, the line the
\* scanner wrote last is RESETALL.
C16_ResetPerPrefix ==
  (pc = "enter" /\ Len(stack) = 1) => lastSent = RESETALL

\* C16 amended: RESETALL is the last line written when scan() is called for
\* the first prefix and when main is done, and it is not when scan() is
\* called for a later prefix: no RESETALL is written between two prefixes.
C16_ResetOnce ==
  /\ (pc = "enter" /\ Len(stack) = 1) => (lastSent = RESETALL <=> argi = 1)
  /\ pc = "done" => lastSent = RESETALL

C16_Witness ==
  /\ pc = "enter" /\ Len(stack) = 1 /\ argi = 2
  /\ lastSent # RESETALL
  /\ late = 0 /\ ~eof
  /\ muted # {}

\* C17: a probe whose body is b and one more character is sent only by an
\* invocation entered for b, below the invocation whose probe with body b
\* was classified as a collision; a probe that times out is followed by no
\* descent; the probes of one invocation go through CHARSET in order.
C17_SilencePrunes ==
  [][/\ (pc = "loop" /\ pc' = "recv" /\ Top'.next # Top.s)
          => (Len(stack) > 1 /\ stack[Len(stack) - 1].next = Top.s)
     /\ (pc = "recv" /\ pc' # "recv" /\ toScan' = toScan)
          => (pc' = "loop" /\ Len(stack') = Len(stack))
     /\ (stack # <<>> /\ Len(stack') = Len(stack))
          => Top'.pos >= Top.pos]_vars

\* C18 as stated: at most MAXLEN invocations of scan() are nested.
C18_DepthBounded == Len(stack) <= MAXLEN

\* C18 amended: the body s of every live invocation of scan() has at most
\* MAXLEN characters, and an invocation that is in its loop has a body
\* shorter than MAXLEN.
C18_BodyBounded ==
  /\ \A k \in 1..Len(stack) : Len(stack[k].s) <= MAXLEN
  /\ pc \in {"loop", "recv", "confirm"} => Len(Top.s) < MAXLEN

C18_Witness ==
  /\ pc = "enter"
  /\ Len(stack) = MAXLEN + 2
  /\ Len(Top.s) = MAXLEN

\* C19: at termination every UID the scanner wrote a SETADDR for is in
\* FoundSet.
C19_MuteConfirmed ==
  pc = "done" => \A i \in 1..Len(setaddrs) : setaddrs[i] \in found_uids

\* C20: when scan() is entered and when it is in its loop (a recursive call
\* has returned), level is the number of invocations of scan() below the
\* one main called.
C20_LevelIsDepth ==
  pc \in {"enter", "loop"} => level = Len(stack) - 1

====
